---- MODULE Spec2Model ----
(***************************************************************************)
(* Model of the VirtualBox provider extension (src/src/lib.rs).            *)
(*                                                                         *)
(* Text is a sequence of symbols.  A symbol is a single character ("a",    *)
(* "=", "\n") or a word that the code only ever treats as a unit ("UUID",  *)
(* "MBytes", "createvm").  Every string of the program - action names,     *)
(* parameter values, argument vectors, command output, error messages -    *)
(* is such a sequence, so that find, split, trim, contains and format!     *)
(* are computed symbol by symbol as the code computes them.                *)
(***************************************************************************)
EXTENDS Integers, Sequences, FiniteSets, TLC

VARIABLES
    pc,      \* "idle" | "exec" | "done": position of the one synchronous call
    action,  \* action name given to execute_action
    params,  \* the caller's parameter map (name -> JSON value)
    procs,   \* what each spawn of the external tool so far in this call answered
    cmds,    \* argument vectors handed to the external tool so far in this call
    result,  \* the ActionResult returned, or NoResult
    input    \* parser specifications: the lines of the command output

vars == <<pc, action, params, procs, cmds, result, input>>

(***************************************************************************)
(* Result<T, String>                                                       *)
(***************************************************************************)
Ok(v) == [tag |-> "Ok", val |-> v]

Err(m) == [tag |-> "Err", msg |-> m]

NoResult == [tag |-> "None"]

(***************************************************************************)
(* str primitives of the Rust standard library, on symbol sequences        *)
(***************************************************************************)
Whitespace == {" ", "\t", "\n", "\r"}

SetMin(S) == CHOOSE m \in S : \A n \in S : m <= n

SetMax(S) == CHOOSE m \in S : \A n \in S : n <= m

\* str::find(char): index of the first occurrence, 0 for None
Find(s, c) ==
    LET hits == {i \in 1..Len(s) : s[i] = c}
    IN  IF hits = {} THEN 0 ELSE SetMin(hits)

\* str::rfind(char): index of the last occurrence, 0 for None
RFind(s, c) ==
    LET hits == {i \in 1..Len(s) : s[i] = c}
    IN  IF hits = {} THEN 0 ELSE SetMax(hits)

\* str::trim
Trim(s) ==
    LET keep == {i \in 1..Len(s) : s[i] \notin Whitespace}
    IN  IF keep = {} THEN <<>> ELSE SubSeq(s, SetMin(keep), SetMax(keep))

\* str::trim_matches(char)
TrimMatches(s, c) ==
    LET keep == {i \in 1..Len(s) : s[i] # c}
    IN  IF keep = {} THEN <<>> ELSE SubSeq(s, SetMin(keep), SetMax(keep))

\* str::starts_with(&str)
StartsWith(s, p) == Len(p) <= Len(s) /\ SubSeq(s, 1, Len(p)) = p

\* index of the first occurrence of the pattern p in s, 0 for none
FindStr(s, p) ==
    LET hits == {i \in 1..(Len(s) - Len(p) + 1) : SubSeq(s, i, i + Len(p) - 1) = p}
    IN  IF hits = {} THEN 0 ELSE SetMin(hits)

\* str::contains(&str)
Contains(s, p) == FindStr(s, p) # 0

\* str::trim_start_matches(&str): the prefix is removed as often as it occurs
RECURSIVE TrimStartMatches(_, _)
TrimStartMatches(s, p) ==
    IF p # <<>> /\ StartsWith(s, p)
    THEN TrimStartMatches(SubSeq(s, Len(p) + 1, Len(s)), p)
    ELSE s

\* str::split(char): every separator starts a new piece; "" gives one empty piece
RECURSIVE Split(_, _)
Split(s, c) ==
    LET n == Find(s, c)
    IN  IF n = 0 THEN <<s>>
        ELSE <<SubSeq(s, 1, n - 1)>> \o Split(SubSeq(s, n + 1, Len(s)), c)

\* str::split(&str): leftmost, non-overlapping occurrences of the pattern
RECURSIVE SplitStr(_, _)
SplitStr(s, p) ==
    LET n == FindStr(s, p)
    IN  IF n = 0 THEN <<s>>
        ELSE <<SubSeq(s, 1, n - 1)>> \o SplitStr(SubSeq(s, n + Len(p), Len(s)), p)

\* str::split_whitespace: the non-empty maximal runs of non-whitespace
RECURSIVE SplitWhitespace(_)
SplitWhitespace(s) ==
    LET t == Trim(s)
        ws == {i \in 1..Len(t) : t[i] \in Whitespace}
    IN  IF t = <<>> THEN <<>>
        ELSE IF ws = {} THEN <<t>>
        ELSE <<SubSeq(t, 1, SetMin(ws) - 1)>>
                 \o SplitWhitespace(SubSeq(t, SetMin(ws) + 1, Len(t)))

\* a line of str::lines loses its "\n" and one "\r" before it
StripCR(l) ==
    IF l # <<>> /\ l[Len(l)] = "\r" THEN SubSeq(l, 1, Len(l) - 1) ELSE l

\* str::lines: pieces ended by "\n"; a final empty piece is no line
RECURSIVE Lines(_)
Lines(s) ==
    IF s = <<>> THEN <<>>
    ELSE LET n == Find(s, "\n")
         IN  IF n = 0 THEN <<StripCR(s)>>
             ELSE <<StripCR(SubSeq(s, 1, n - 1))>> \o Lines(SubSeq(s, n + 1, Len(s)))

Digits == {"0", "1", "2", "3", "4", "5", "6", "7", "8", "9"}

DigitVal(d) ==
    CASE d = "0" -> 0 [] d = "1" -> 1 [] d = "2" -> 2 [] d = "3" -> 3 [] d = "4" -> 4
      [] d = "5" -> 5 [] d = "6" -> 6 [] d = "7" -> 7 [] d = "8" -> 8 [] d = "9" -> 9

RECURSIVE DecVal(_)
DecVal(s) == IF s = <<>> THEN 0 ELSE 10 * DecVal(SubSeq(s, 1, Len(s) - 1)) + DigitVal(s[Len(s)])

\* str::parse::<i64>: an optional sign, then one or more digits, nothing else.
\* Ok(n) or Err; the texts of the model are too short to leave the i64 range.
ParseI64(s) ==
    LET signed == s # <<>> /\ s[1] \in {"+", "-"}
        body   == IF signed THEN Tail(s) ELSE s
    IN  IF body # <<>> /\ \A i \in 1..Len(body) : body[i] \in Digits
        THEN Ok(IF signed /\ s[1] = "-" THEN 0 - DecVal(body) ELSE DecVal(body))
        ELSE Err(<<"invalid digit found in string">>)

(***************************************************************************)
(* The command runner                                                      *)
(***************************************************************************)
\* What the operating system and the tool answer to one spawn: the spawn
\* fails (spawned = FALSE, e the io error), or the process exits with a
\* status (success) and two captured streams.
Process(spawned, e, success, stdout, stderr) ==
    [spawned |-> spawned, e |-> e, success |-> success, stdout |-> stdout, stderr |-> stderr]

run_vboxmanage(proc) ==
    IF ~proc.spawned
    THEN Err(<<"Failed to execute VBoxManage command: ">> \o proc.e)
    ELSE IF proc.success
    THEN Ok(proc.stdout)
    ELSE Err(<<"VBoxManage command failed: ">> \o proc.stderr)

\* the results the executor has received from its run_vboxmanage calls
Results(ps) == [i \in 1..Len(ps) |-> run_vboxmanage(ps[i])]

(***************************************************************************)
(* The action executors.  An executor is given the results rs of the       *)
(* run_vboxmanage calls it has made so far and answers with its next step: *)
(* Run(argv), the next call of run_vboxmanage, or Ret(result), its return. *)
(* `run_vboxmanage(..)?` is: Ret(rs[i]) when rs[i] is an Err.              *)
(***************************************************************************)
Run(argv) == [t |-> "run", argv |-> argv]

Ret(r) == [t |-> "ret", result |-> r]

\* a string literal of the source, as text of one symbol
L(s) == <<s>>

\* i64::to_string
IntToString(n) == <<ToString(n)>>

(***************************************************************************)
(* test_install                                                            *)
(***************************************************************************)
\* as test_install, refusing an output without a version
test_install_requiring_version(rs) ==
    IF Len(rs) = 0 THEN Run(<<L("--version")>>)
    ELSE IF rs[1].tag = "Err" THEN Ret(rs[1])
    ELSE IF Trim(rs[1].val) = <<>> THEN Ret(Err(<<"VBoxManage reported no version">>))
    ELSE Ret(Ok([success |-> TRUE, version |-> Trim(rs[1].val)]))

test_install(rs) ==
    IF Len(rs) = 0 THEN Run(<<L("--version")>>)
    ELSE IF rs[1].tag = "Err" THEN Ret(rs[1])
    ELSE Ret(Ok([success |-> TRUE, version |-> Trim(rs[1].val)]))

(***************************************************************************)
(* list_workers                                                            *)
(***************************************************************************)
\* as ListWorkersLine, without the test of the braces
ListWorkersLineNoBraceCheck(line) ==
    LET first_quote == Find(line, "\"")
        last_quote  == RFind(line, "\"")
        open_brace  == Find(line, "{")
        close_brace == RFind(line, "}")
    IN  IF Trim(line) = <<>> THEN <<>>
        ELSE IF first_quote # 0 /\ last_quote # 0 /\ first_quote < last_quote
        THEN <<[name  |-> SubSeq(line, first_quote + 1, last_quote - 1),
                uuid  |-> SubSeq(line, open_brace + 1, close_brace - 1),
                id    |-> SubSeq(line, open_brace + 1, close_brace - 1),
                state |-> <<"unknown">>]>>
        ELSE <<>>

\* The body of the loop over the output's lines: the records the line adds.
ListWorkersLine(line) ==
    LET first_quote == Find(line, "\"")
        last_quote  == RFind(line, "\"")
        open_brace  == Find(line, "{")
        close_brace == RFind(line, "}")
    IN  IF Trim(line) = <<>> THEN <<>>
        ELSE IF first_quote # 0 /\ last_quote # 0 /\ first_quote < last_quote
        THEN IF open_brace # 0 /\ close_brace # 0 /\ open_brace < close_brace
             THEN <<[name  |-> SubSeq(line, first_quote + 1, last_quote - 1),
                     uuid  |-> SubSeq(line, open_brace + 1, close_brace - 1),
                     id    |-> SubSeq(line, open_brace + 1, close_brace - 1),
                     state |-> <<"unknown">>]>>
             ELSE <<>>
        ELSE <<>>

RECURSIVE ListWorkersLoop(_)
ListWorkersLoop(lines) ==
    IF lines = <<>> THEN <<>>
    ELSE ListWorkersLine(Head(lines)) \o ListWorkersLoop(Tail(lines))

list_workers(rs) ==
    IF Len(rs) = 0 THEN Run(<<L("list"), L("vms")>>)
    ELSE IF rs[1].tag = "Err" THEN Ret(rs[1])
    ELSE Ret(Ok([workers |-> ListWorkersLoop(Lines(rs[1].val))]))

(***************************************************************************)
(* create_worker, delete_worker                                            *)
(***************************************************************************)
\* The loop over the lines of createvm's output: the uuid at its end.
RECURSIVE CreateWorkerUuid(_)
CreateWorkerUuid(lines) ==
    IF lines = <<>> THEN <<>>
    ELSE IF Contains(Head(lines), <<"UUID">>) /\ Len(Split(Head(lines), ":")) >= 2
    THEN Trim(Split(Head(lines), ":")[2])
    ELSE CreateWorkerUuid(Tail(lines))

\* as create_worker, with the VM unregistered again when the first modifyvm fails
create_worker_with_rollback(a, rs) ==
    IF Len(rs) = 0
    THEN Run(<<L("createvm"), L("--name"), a.worker_name, L("--ostype"), a.os_type,
               L("--register")>>)
    ELSE IF rs[1].tag = "Err" THEN Ret(rs[1])
    ELSE IF Len(rs) = 1
    THEN Run(<<L("modifyvm"), a.worker_name, L("--memory"), IntToString(a.memory_mb),
               L("--cpus"), IntToString(a.cpu_count)>>)
    ELSE IF rs[2].tag = "Err"
    THEN IF Len(rs) = 2 THEN Run(<<L("unregistervm"), a.worker_name, L("--delete")>>)
                        ELSE Ret(rs[2])
    ELSE IF Len(rs) = 2
    THEN Run(<<L("modifyvm"), a.worker_name, L("--nic1"), L("nat")>>)
    ELSE IF rs[3].tag = "Err" THEN Ret(rs[3])
    ELSE Ret(Ok([success |-> TRUE,
                 uuid    |-> CreateWorkerUuid(Lines(rs[1].val)),
                 name    |-> a.worker_name]))

create_worker(a, rs) ==
    IF Len(rs) = 0
    THEN Run(<<L("createvm"), L("--name"), a.worker_name, L("--ostype"), a.os_type,
               L("--register")>>)
    ELSE IF rs[1].tag = "Err" THEN Ret(rs[1])
    ELSE IF Len(rs) = 1
    THEN Run(<<L("modifyvm"), a.worker_name, L("--memory"), IntToString(a.memory_mb),
               L("--cpus"), IntToString(a.cpu_count)>>)
    ELSE IF rs[2].tag = "Err" THEN Ret(rs[2])
    ELSE IF Len(rs) = 2
    THEN Run(<<L("modifyvm"), a.worker_name, L("--nic1"), L("nat")>>)
    ELSE IF rs[3].tag = "Err" THEN Ret(rs[3])
    ELSE Ret(Ok([success |-> TRUE,
                 uuid    |-> CreateWorkerUuid(Lines(rs[1].val)),
                 name    |-> a.worker_name]))

delete_worker(a, rs) ==
    IF Len(rs) = 0 THEN Run(<<L("unregistervm"), a.worker_name, L("--delete")>>)
    ELSE IF rs[1].tag = "Err" THEN Ret(rs[1])
    ELSE Ret(Ok([success |-> TRUE]))

(***************************************************************************)
(* get_worker                                                              *)
(***************************************************************************)
\* serde_json::Map::insert on an object held as a function from field names
Insert(obj, k, v) == [f \in DOMAIN obj \cup {k} |-> IF f = k THEN v ELSE obj[f]]

EmptyObject == <<>>

\* The body of the loop over the output's lines: vm_info after the line.
GetWorkerLine(vm_info, line) ==
    LET parts == Split(line, "=")
    IN  IF Len(parts) >= 2
        THEN LET key   == Trim(parts[1])
                 value == TrimMatches(Trim(parts[2]), "\"")
             IN  CASE key = <<"name">> -> Insert(vm_info, "name", value)
                   [] key = <<"UUID">> -> Insert(vm_info, "id", value)
                   [] key = <<"VMState">> -> Insert(vm_info, "state", value)
                   [] key = <<"memory">> ->
                          IF ParseI64(value).tag = "Ok"
                          THEN Insert(vm_info, "memory_mb", ParseI64(value).val)
                          ELSE vm_info
                   [] key = <<"cpus">> ->
                          IF ParseI64(value).tag = "Ok"
                          THEN Insert(vm_info, "cpu_count", ParseI64(value).val)
                          ELSE vm_info
                   [] key = <<"ostype">> -> Insert(vm_info, "os_type", value)
                   [] key = <<"firmware">> -> Insert(vm_info, "firmware", value)
                   [] key = <<"graphicscontroller">> ->
                          Insert(vm_info, "graphics_controller", value)
                   [] OTHER -> vm_info
        ELSE vm_info

RECURSIVE GetWorkerLoop(_, _)
GetWorkerLoop(vm_info, lines) ==
    IF lines = <<>> THEN vm_info
    ELSE GetWorkerLoop(GetWorkerLine(vm_info, Head(lines)), Tail(lines))

get_worker(a, rs) ==
    IF Len(rs) = 0
    THEN Run(<<L("showvminfo"), a.worker_name, L("--machinereadable")>>)
    ELSE IF rs[1].tag = "Err" THEN Ret(rs[1])
    ELSE Ret(Ok([success |-> TRUE, vm |-> GetWorkerLoop(EmptyObject, Lines(rs[1].val))]))

(***************************************************************************)
(* has_worker, start_worker                                                *)
(***************************************************************************)
\* as has_worker, with `?` on the result of run_vboxmanage
has_worker_propagating(a, rs) ==
    IF Len(rs) = 0
    THEN Run(<<L("showvminfo"), a.worker_name, L("--machinereadable")>>)
    ELSE IF rs[1].tag = "Err" THEN Ret(rs[1])
    ELSE Ret(Ok([success |-> TRUE, exists |-> TRUE]))

has_worker(a, rs) ==
    IF Len(rs) = 0
    THEN Run(<<L("showvminfo"), a.worker_name, L("--machinereadable")>>)
    ELSE IF rs[1].tag = "Ok"
    THEN Ret(Ok([success |-> TRUE, exists |-> TRUE]))
    ELSE Ret(Ok([success |-> TRUE, exists |-> FALSE]))

\* as start_worker, returning only the started name
start_worker_without_success(a, rs) ==
    IF Len(rs) = 0
    THEN Run(<<L("startvm"), a.worker_name, L("--type"), L("headless")>>)
    ELSE IF rs[1].tag = "Err" THEN Ret(rs[1])
    ELSE Ret(Ok([started |-> a.worker_name]))

start_worker(a, rs) ==
    IF Len(rs) = 0
    THEN Run(<<L("startvm"), a.worker_name, L("--type"), L("headless")>>)
    ELSE IF rs[1].tag = "Err" THEN Ret(rs[1])
    ELSE Ret(Ok([success |-> TRUE, started |-> a.worker_name]))

(***************************************************************************)
(* get_volumes                                                             *)
(***************************************************************************)
\* The chain of starts_with tests on one line of a block: volume after the line.
GetVolumesLine(volume, line) ==
    IF StartsWith(line, <<"UUID", ":">>)
    THEN Insert(volume, "id", Trim(TrimStartMatches(line, <<"UUID", ":">>)))
    ELSE IF StartsWith(line, <<"Location", ":">>)
    THEN Insert(volume, "path", Trim(TrimStartMatches(line, <<"Location", ":">>)))
    ELSE IF StartsWith(line, <<"Capacity", ":">>)
    THEN LET size_str   == Trim(TrimStartMatches(line, <<"Capacity", ":">>))
             size_parts == SplitWhitespace(size_str)
         IN  IF Len(size_parts) >= 2 /\ size_parts[2] = <<"MBytes">>
             THEN IF ParseI64(size_parts[1]).tag = "Ok"
                  THEN Insert(volume, "size_mb", ParseI64(size_parts[1]).val)
                  ELSE volume
             ELSE volume
    ELSE IF StartsWith(line, <<"Format", ":">>)
    THEN Insert(volume, "format", Trim(TrimStartMatches(line, <<"Format", ":">>)))
    ELSE IF StartsWith(line, <<"Type", ":">>)
    THEN Insert(volume, "type", Trim(TrimStartMatches(line, <<"Type", ":">>)))
    ELSE IF StartsWith(line, <<"Parent", " ", "UUID", ":">>)
    THEN Insert(volume, "parent",
                Trim(TrimStartMatches(line, <<"Parent", " ", "UUID", ":">>)))
    ELSE IF StartsWith(line, <<"State", ":">>)
    THEN Insert(volume, "state", Trim(TrimStartMatches(line, <<"State", ":">>)))
    ELSE volume

RECURSIVE GetVolumesBlockLoop(_, _)
GetVolumesBlockLoop(volume, lines) ==
    IF lines = <<>> THEN volume
    ELSE GetVolumesBlockLoop(GetVolumesLine(volume, Head(lines)), Tail(lines))

\* as GetVolumesBlock, pushing the volume also when it is empty
GetVolumesBlockKeepEmpty(block) ==
    IF Trim(block) = <<>> THEN <<>>
    ELSE <<GetVolumesBlockLoop(EmptyObject, Lines(block))>>

\* The body of the loop over the blocks: the records the block adds.
GetVolumesBlock(block) ==
    IF Trim(block) = <<>> THEN <<>>
    ELSE LET volume == GetVolumesBlockLoop(EmptyObject, Lines(block))
         IN  IF DOMAIN volume # {} THEN <<volume>> ELSE <<>>

RECURSIVE GetVolumesLoop(_)
GetVolumesLoop(blocks) ==
    IF blocks = <<>> THEN <<>>
    ELSE GetVolumesBlock(Head(blocks)) \o GetVolumesLoop(Tail(blocks))

get_volumes(rs) ==
    IF Len(rs) = 0 THEN Run(<<L("list"), L("hdds")>>)
    ELSE IF rs[1].tag = "Err" THEN Ret(rs[1])
    ELSE Ret(Ok([success |-> TRUE,
                 volumes |-> GetVolumesLoop(SplitStr(rs[1].val, <<"\n", "\n">>))]))

(***************************************************************************)
(* has_volume                                                              *)
(***************************************************************************)
has_volume(a, rs) ==
    IF Len(rs) = 0 THEN Run(<<L("showmediuminfo"), L("disk"), a.disk_path>>)
    ELSE IF rs[1].tag = "Ok"
    THEN Ret(Ok([success |-> TRUE, exists |-> TRUE]))
    ELSE Ret(Ok([success |-> TRUE, exists |-> FALSE]))

(***************************************************************************)
(* create_volume                                                           *)
(***************************************************************************)
\* The body of the loop over the output's lines: (uuid, path) after the line.
CreateVolumeLine(acc, line) ==
    IF Contains(line, <<"UUID", ":">>)
    THEN LET parts == Split(line, ":")
         IN  IF Len(parts) >= 2 THEN [acc EXCEPT !.uuid = Trim(parts[2])] ELSE acc
    ELSE IF Contains(line, <<"Location", ":">>)
    THEN LET parts == Split(line, ":")
         IN  IF Len(parts) >= 2 THEN [acc EXCEPT !.path = Trim(parts[2])] ELSE acc
    ELSE acc

RECURSIVE CreateVolumeLoop(_, _)
CreateVolumeLoop(acc, lines) ==
    IF lines = <<>> THEN acc
    ELSE CreateVolumeLoop(CreateVolumeLine(acc, Head(lines)), Tail(lines))

create_volume(a, rs) ==
    IF Len(rs) = 0
    THEN Run(<<L("createmedium"), L("disk"), L("--filename"), a.disk_path, L("--size"),
               IntToString(a.size_mb), L("--format"), L("VDI")>>)
    ELSE IF rs[1].tag = "Err" THEN Ret(rs[1])
    ELSE LET acc == CreateVolumeLoop([uuid |-> <<>>, path |-> <<>>], Lines(rs[1].val))
         IN  Ret(Ok([success |-> TRUE, uuid |-> acc.uuid, path |-> acc.path]))

(***************************************************************************)
(* delete_volume, attach_volume, detach_volume                             *)
(***************************************************************************)
\* as delete_volume, with one more attempt after a failure
delete_volume_retrying(a, rs) ==
    IF Len(rs) = 0
    THEN Run(<<L("closemedium"), L("disk"), a.disk_path, L("--delete")>>)
    ELSE IF rs[1].tag = "Err" /\ Len(rs) = 1
    THEN Run(<<L("closemedium"), L("disk"), a.disk_path, L("--delete")>>)
    ELSE IF rs[Len(rs)].tag = "Err" THEN Ret(rs[Len(rs)])
    ELSE Ret(Ok([success |-> TRUE]))

delete_volume(a, rs) ==
    IF Len(rs) = 0
    THEN Run(<<L("closemedium"), L("disk"), a.disk_path, L("--delete")>>)
    ELSE IF rs[1].tag = "Err" THEN Ret(rs[1])
    ELSE Ret(Ok([success |-> TRUE]))

\* as attach_volume, with `?` on the storagectl step as well
attach_volume_strict_controller(a, rs) ==
    IF Len(rs) = 0
    THEN Run(<<L("storagectl"), a.worker_name, L("--name"), a.controller_name,
               L("--add"), L("sata"), L("--controller"), L("IntelAhci"),
               L("--portcount"), L("30")>>)
    ELSE IF rs[1].tag = "Err" THEN Ret(rs[1])
    ELSE IF Len(rs) = 1
    THEN Run(<<L("storageattach"), a.worker_name, L("--storagectl"), a.controller_name,
               L("--port"), IntToString(a.port), L("--device"), L("0"),
               L("--type"), L("dvddrive"), L("--medium"), a.disk_path>>)
    ELSE IF rs[2].tag = "Err" THEN Ret(rs[2])
    ELSE Ret(Ok([success |-> TRUE]))

\* `let _ = run_vboxmanage(storagectl ..)`: rs[1] is never looked at
attach_volume(a, rs) ==
    IF Len(rs) = 0
    THEN Run(<<L("storagectl"), a.worker_name, L("--name"), a.controller_name,
               L("--add"), L("sata"), L("--controller"), L("IntelAhci"),
               L("--portcount"), L("30")>>)
    ELSE IF Len(rs) = 1
    THEN Run(<<L("storageattach"), a.worker_name, L("--storagectl"), a.controller_name,
               L("--port"), IntToString(a.port), L("--device"), L("0"),
               L("--type"), L("dvddrive"), L("--medium"), a.disk_path>>)
    ELSE IF rs[2].tag = "Err" THEN Ret(rs[2])
    ELSE Ret(Ok([success |-> TRUE]))

detach_volume(a, rs) ==
    IF Len(rs) = 0
    THEN Run(<<L("storageattach"), a.worker_name, L("--storagectl"), a.controller_name,
               L("--port"), IntToString(a.port), L("--device"), L("0"),
               L("--type"), L("hdd"), L("--medium"), L("none")>>)
    ELSE IF rs[1].tag = "Err" THEN Ret(rs[1])
    ELSE Ret(Ok([success |-> TRUE]))

(***************************************************************************)
(* create_snapshot, delete_snapshot, has_snapshot                          *)
(***************************************************************************)
\* The loop over the lines of `snapshot take`'s output: the uuid at its end.
\* A line that contains "taken as" always splits in two or more parts.
RECURSIVE CreateSnapshotUuid(_)
CreateSnapshotUuid(lines) ==
    IF lines = <<>> THEN <<>>
    ELSE IF Contains(Head(lines), <<"taken", " ", "as">>)
            /\ Len(SplitStr(Head(lines), <<"taken", " ", "as">>)) >= 2
    THEN Trim(SplitStr(Head(lines), <<"taken", " ", "as">>)[2])
    ELSE CreateSnapshotUuid(Tail(lines))

create_snapshot(a, rs) ==
    IF Len(rs) = 0
    THEN Run(<<L("snapshot"), a.worker_name, L("take"), a.snapshot_name>>)
    ELSE IF rs[1].tag = "Err" THEN Ret(rs[1])
    ELSE Ret(Ok([success |-> TRUE, uuid |-> CreateSnapshotUuid(Lines(rs[1].val))]))

delete_snapshot(a, rs) ==
    IF Len(rs) = 0
    THEN Run(<<L("snapshot"), a.worker_name, L("delete"), a.snapshot_name>>)
    ELSE IF rs[1].tag = "Err" THEN Ret(rs[1])
    ELSE Ret(Ok([success |-> TRUE]))

\* as has_snapshot, with the name matched whole, between the quotes of a line
has_snapshot_whole_name(a, rs) ==
    IF Len(rs) = 0
    THEN Run(<<L("snapshot"), a.worker_name, L("list"), L("--machinereadable")>>)
    ELSE IF rs[1].tag = "Err" THEN Ret(rs[1])
    ELSE Ret(Ok([success |-> TRUE,
                 exists  |-> \E i \in 1..Len(Lines(rs[1].val)) :
                                 Contains(Lines(rs[1].val)[i],
                                          <<"\"">> \o a.snapshot_name \o <<"\"">>)]))

has_snapshot(a, rs) ==
    IF Len(rs) = 0
    THEN Run(<<L("snapshot"), a.worker_name, L("list"), L("--machinereadable")>>)
    ELSE IF rs[1].tag = "Err" THEN Ret(rs[1])
    ELSE Ret(Ok([success |-> TRUE,
                 exists  |-> \E i \in 1..Len(Lines(rs[1].val)) :
                                 Contains(Lines(rs[1].val)[i], a.snapshot_name)]))

(***************************************************************************)
(* reboot_worker, configure_networks, set_worker_metadata, snapshot_volume *)
(***************************************************************************)
reboot_worker(a, rs) ==
    IF Len(rs) = 0 THEN Run(<<L("controlvm"), a.worker_name, L("reset")>>)
    ELSE IF rs[1].tag = "Err" THEN Ret(rs[1])
    ELSE Ret(Ok([success |-> TRUE]))

configure_networks(a, rs) ==
    IF Len(rs) = 0
    THEN Run(<<L("modifyvm"), a.worker_name, L("--nic") \o IntToString(a.network_index),
               a.network_type>>)
    ELSE IF rs[1].tag = "Err" THEN Ret(rs[1])
    ELSE Ret(Ok([success |-> TRUE]))

set_worker_metadata(a, rs) ==
    IF Len(rs) = 0 THEN Run(<<L("setextradata"), a.worker_name, a.key, a.value>>)
    ELSE IF rs[1].tag = "Err" THEN Ret(rs[1])
    ELSE Ret(Ok([success |-> TRUE]))

\* The loop over the lines of clonemedium's output: the uuid at its end.
RECURSIVE SnapshotVolumeUuid(_)
SnapshotVolumeUuid(lines) ==
    IF lines = <<>> THEN <<>>
    ELSE IF Contains(Head(lines), <<"UUID", ":">>) /\ Len(Split(Head(lines), ":")) >= 2
    THEN Trim(Split(Head(lines), ":")[2])
    ELSE SnapshotVolumeUuid(Tail(lines))

snapshot_volume(a, rs) ==
    IF Len(rs) = 0
    THEN Run(<<L("clonemedium"), L("disk"), a.source_volume_path, a.target_volume_path>>)
    ELSE IF rs[1].tag = "Err" THEN Ret(rs[1])
    ELSE Ret(Ok([success |-> TRUE, uuid |-> SnapshotVolumeUuid(Lines(rs[1].val))]))

(***************************************************************************)
(* serde_json values of the parameter map, and lib_cpi's validation        *)
(* functions (lib_cpi is a dependency; they are modelled from the          *)
(* parameter validator's contract)                                         *)
(***************************************************************************)
JString(s) == [t |-> "string", s |-> s, n |-> 0, fraction |-> FALSE]

JNumber(n) == [t |-> "number", s |-> <<>>, n |-> n, fraction |-> FALSE]

\* a number with a fractional part, n its integer part
JFraction(n) == [t |-> "number", s |-> <<>>, n |-> n, fraction |-> TRUE]

\* VirtualBoxExtension::new: the default settings, never written afterwards
default_settings ==
    [os_type         |-> JString(L("Ubuntu_64")),
     memory_mb       |-> JNumber(2048),
     cpu_count       |-> JNumber(2),
     controller_name |-> JString(L("SATA Controller")),
     network_type    |-> JString(L("nat")),
     username        |-> JString(L("vboxuser")),
     password        |-> JString(L("password"))]

Some(v) == [some |-> TRUE, v |-> v]

None == [some |-> FALSE]

\* Option::unwrap_or, Option::unwrap_or_else
UnwrapOr(opt, d) == IF opt.some THEN opt.v ELSE d

MissingParameter(key) == <<"Missing required parameter: ", key>>

WrongType(key) == <<"Parameter has the wrong type: ", key>>

extract_string(p, key) ==
    IF key \notin DOMAIN p THEN Err(MissingParameter(key))
    ELSE IF p[key].t = "string" THEN Ok(p[key].s)
    ELSE Err(WrongType(key))

extract_int(p, key) ==
    IF key \notin DOMAIN p THEN Err(MissingParameter(key))
    ELSE IF p[key].t = "number" /\ ~p[key].fraction THEN Ok(p[key].n)
    ELSE Err(WrongType(key))

extract_string_opt(p, key) ==
    IF key \notin DOMAIN p THEN Ok(None)
    ELSE IF p[key].t = "string" THEN Ok(Some(p[key].s))
    ELSE Err(WrongType(key))

extract_int_opt(p, key) ==
    IF key \notin DOMAIN p THEN Ok(None)
    ELSE IF p[key].t = "number" /\ ~p[key].fraction THEN Ok(Some(p[key].n))
    ELSE Err(WrongType(key))

(***************************************************************************)
(* execute_action: one operator per arm of the match.  `extract(..)?` is:  *)
(* Ret(the Err) when the extraction is an Err.                             *)
(***************************************************************************)
\* as execute_create_worker, with 1024 for an absent memory_mb
execute_create_worker_small_memory(p, rs) ==
    LET worker_name == extract_string(p, "worker_name")
        os_type     == extract_string_opt(p, "os_type")
        memory_mb   == extract_int_opt(p, "memory_mb")
        cpu_count   == extract_int_opt(p, "cpu_count")
    IN  IF worker_name.tag = "Err" THEN Ret(worker_name)
        ELSE IF os_type.tag = "Err" THEN Ret(os_type)
        ELSE IF memory_mb.tag = "Err" THEN Ret(memory_mb)
        ELSE IF cpu_count.tag = "Err" THEN Ret(cpu_count)
        ELSE create_worker([worker_name |-> worker_name.val,
                            os_type     |-> UnwrapOr(os_type.val, L("Ubuntu_64")),
                            memory_mb   |-> UnwrapOr(memory_mb.val, 1024),
                            cpu_count   |-> UnwrapOr(cpu_count.val, 2)], rs)

execute_create_worker(p, rs) ==
    LET worker_name == extract_string(p, "worker_name")
        os_type     == extract_string_opt(p, "os_type")
        memory_mb   == extract_int_opt(p, "memory_mb")
        cpu_count   == extract_int_opt(p, "cpu_count")
    IN  IF worker_name.tag = "Err" THEN Ret(worker_name)
        ELSE IF os_type.tag = "Err" THEN Ret(os_type)
        ELSE IF memory_mb.tag = "Err" THEN Ret(memory_mb)
        ELSE IF cpu_count.tag = "Err" THEN Ret(cpu_count)
        ELSE create_worker([worker_name |-> worker_name.val,
                            os_type     |-> UnwrapOr(os_type.val, L("Ubuntu_64")),
                            memory_mb   |-> UnwrapOr(memory_mb.val, 2048),
                            cpu_count   |-> UnwrapOr(cpu_count.val, 2)], rs)

execute_delete_worker(p, rs) ==
    LET worker_name == extract_string(p, "worker_name")
    IN  IF worker_name.tag = "Err" THEN Ret(worker_name)
        ELSE delete_worker([worker_name |-> worker_name.val], rs)

execute_get_worker(p, rs) ==
    LET worker_name == extract_string(p, "worker_name")
    IN  IF worker_name.tag = "Err" THEN Ret(worker_name)
        ELSE get_worker([worker_name |-> worker_name.val], rs)

execute_has_worker(p, rs) ==
    LET worker_name == extract_string(p, "worker_name")
    IN  IF worker_name.tag = "Err" THEN Ret(worker_name)
        ELSE has_worker([worker_name |-> worker_name.val], rs)

execute_start_worker(p, rs) ==
    LET worker_name == extract_string(p, "worker_name")
    IN  IF worker_name.tag = "Err" THEN Ret(worker_name)
        ELSE start_worker([worker_name |-> worker_name.val], rs)

execute_has_volume(p, rs) ==
    LET disk_path == extract_string(p, "disk_path")
    IN  IF disk_path.tag = "Err" THEN Ret(disk_path)
        ELSE has_volume([disk_path |-> disk_path.val], rs)

execute_create_volume(p, rs) ==
    LET disk_path == extract_string(p, "disk_path")
        size_mb   == extract_int(p, "size_mb")
    IN  IF disk_path.tag = "Err" THEN Ret(disk_path)
        ELSE IF size_mb.tag = "Err" THEN Ret(size_mb)
        ELSE create_volume([disk_path |-> disk_path.val, size_mb |-> size_mb.val], rs)

execute_delete_volume(p, rs) ==
    LET disk_path == extract_string(p, "disk_path")
    IN  IF disk_path.tag = "Err" THEN Ret(disk_path)
        ELSE delete_volume([disk_path |-> disk_path.val], rs)

\* as execute_attach_volume, with `unwrap_or(0)` in the place of `?` on port
execute_attach_volume_port_defaulted(p, rs) ==
    LET worker_name     == extract_string(p, "worker_name")
        controller_name == extract_string_opt(p, "controller_name")
        port            == extract_int(p, "port")
        disk_path       == extract_string(p, "disk_path")
    IN  IF worker_name.tag = "Err" THEN Ret(worker_name)
        ELSE IF controller_name.tag = "Err" THEN Ret(controller_name)
        ELSE IF disk_path.tag = "Err" THEN Ret(disk_path)
        ELSE attach_volume(
                 [worker_name     |-> worker_name.val,
                  controller_name |-> UnwrapOr(controller_name.val, L("SATA Controller")),
                  port            |-> IF port.tag = "Err" THEN 0 ELSE port.val,
                  disk_path       |-> disk_path.val], rs)

execute_attach_volume(p, rs) ==
    LET worker_name     == extract_string(p, "worker_name")
        controller_name == extract_string_opt(p, "controller_name")
        port            == extract_int(p, "port")
        disk_path       == extract_string(p, "disk_path")
    IN  IF worker_name.tag = "Err" THEN Ret(worker_name)
        ELSE IF controller_name.tag = "Err" THEN Ret(controller_name)
        ELSE IF port.tag = "Err" THEN Ret(port)
        ELSE IF disk_path.tag = "Err" THEN Ret(disk_path)
        ELSE attach_volume(
                 [worker_name     |-> worker_name.val,
                  controller_name |-> UnwrapOr(controller_name.val, L("SATA Controller")),
                  port            |-> port.val,
                  disk_path       |-> disk_path.val], rs)

execute_detach_volume(p, rs) ==
    LET worker_name     == extract_string(p, "worker_name")
        controller_name == extract_string_opt(p, "controller_name")
        port            == extract_int(p, "port")
    IN  IF worker_name.tag = "Err" THEN Ret(worker_name)
        ELSE IF controller_name.tag = "Err" THEN Ret(controller_name)
        ELSE IF port.tag = "Err" THEN Ret(port)
        ELSE detach_volume(
                 [worker_name     |-> worker_name.val,
                  controller_name |-> UnwrapOr(controller_name.val, L("SATA Controller")),
                  port            |-> port.val], rs)

execute_create_snapshot(p, rs) ==
    LET worker_name   == extract_string(p, "worker_name")
        snapshot_name == extract_string(p, "snapshot_name")
    IN  IF worker_name.tag = "Err" THEN Ret(worker_name)
        ELSE IF snapshot_name.tag = "Err" THEN Ret(snapshot_name)
        ELSE create_snapshot([worker_name   |-> worker_name.val,
                              snapshot_name |-> snapshot_name.val], rs)

execute_delete_snapshot(p, rs) ==
    LET worker_name   == extract_string(p, "worker_name")
        snapshot_name == extract_string(p, "snapshot_name")
    IN  IF worker_name.tag = "Err" THEN Ret(worker_name)
        ELSE IF snapshot_name.tag = "Err" THEN Ret(snapshot_name)
        ELSE delete_snapshot([worker_name   |-> worker_name.val,
                              snapshot_name |-> snapshot_name.val], rs)

execute_has_snapshot(p, rs) ==
    LET worker_name   == extract_string(p, "worker_name")
        snapshot_name == extract_string(p, "snapshot_name")
    IN  IF worker_name.tag = "Err" THEN Ret(worker_name)
        ELSE IF snapshot_name.tag = "Err" THEN Ret(snapshot_name)
        ELSE has_snapshot([worker_name   |-> worker_name.val,
                           snapshot_name |-> snapshot_name.val], rs)

execute_reboot_worker(p, rs) ==
    LET worker_name == extract_string(p, "worker_name")
    IN  IF worker_name.tag = "Err" THEN Ret(worker_name)
        ELSE reboot_worker([worker_name |-> worker_name.val], rs)

execute_configure_networks(p, rs) ==
    LET worker_name   == extract_string(p, "worker_name")
        network_index == extract_int(p, "network_index")
        network_type  == extract_string_opt(p, "network_type")
    IN  IF worker_name.tag = "Err" THEN Ret(worker_name)
        ELSE IF network_index.tag = "Err" THEN Ret(network_index)
        ELSE IF network_type.tag = "Err" THEN Ret(network_type)
        ELSE configure_networks(
                 [worker_name   |-> worker_name.val,
                  network_index |-> network_index.val,
                  network_type  |-> UnwrapOr(network_type.val, L("nat"))], rs)

execute_set_worker_metadata(p, rs) ==
    LET worker_name == extract_string(p, "worker_name")
        key         == extract_string(p, "key")
        value       == extract_string(p, "value")
    IN  IF worker_name.tag = "Err" THEN Ret(worker_name)
        ELSE IF key.tag = "Err" THEN Ret(key)
        ELSE IF value.tag = "Err" THEN Ret(value)
        ELSE set_worker_metadata([worker_name |-> worker_name.val,
                                  key |-> key.val, value |-> value.val], rs)

execute_snapshot_volume(p, rs) ==
    LET source_volume_path == extract_string(p, "source_volume_path")
        target_volume_path == extract_string(p, "target_volume_path")
    IN  IF source_volume_path.tag = "Err" THEN Ret(source_volume_path)
        ELSE IF target_volume_path.tag = "Err" THEN Ret(target_volume_path)
        ELSE snapshot_volume([source_volume_path |-> source_volume_path.val,
                              target_volume_path |-> target_volume_path.val], rs)

\* the `_` arm, with a message that does not name the action
action_not_found_unnamed(a, rs) == Ret(Err(<<"Action not found">>))

\* the `_` arm
action_not_found(a, rs) == Ret(Err(<<"Action '">> \o a \o <<"' not found">>))

\* The next step of execute_action(a, p) after the run_vboxmanage results rs.
execute_action(a, p, rs) ==
    CASE a = L("test_install") -> test_install(rs)
      [] a = L("list_workers") -> list_workers(rs)
      [] a = L("create_worker") -> execute_create_worker(p, rs)
      [] a = L("delete_worker") -> execute_delete_worker(p, rs)
      [] a = L("get_worker") -> execute_get_worker(p, rs)
      [] a = L("has_worker") -> execute_has_worker(p, rs)
      [] a = L("start_worker") -> execute_start_worker(p, rs)
      [] a = L("get_volumes") -> get_volumes(rs)
      [] a = L("has_volume") -> execute_has_volume(p, rs)
      [] a = L("create_volume") -> execute_create_volume(p, rs)
      [] a = L("delete_volume") -> execute_delete_volume(p, rs)
      [] a = L("attach_volume") -> execute_attach_volume(p, rs)
      [] a = L("detach_volume") -> execute_detach_volume(p, rs)
      [] a = L("create_snapshot") -> execute_create_snapshot(p, rs)
      [] a = L("delete_snapshot") -> execute_delete_snapshot(p, rs)
      [] a = L("has_snapshot") -> execute_has_snapshot(p, rs)
      [] a = L("reboot_worker") -> execute_reboot_worker(p, rs)
      [] a = L("configure_networks") -> execute_configure_networks(p, rs)
      [] a = L("set_worker_metadata") -> execute_set_worker_metadata(p, rs)
      [] a = L("snapshot_volume") -> execute_snapshot_volume(p, rs)
      [] OTHER -> action_not_found(a, rs)

\* as list_actions, with the last action listed under another name
list_actions_renamed ==
    <<L("test_install"), L("list_workers"), L("create_worker"), L("delete_worker"),
      L("get_worker"), L("has_worker"), L("start_worker"), L("get_volumes"),
      L("has_volume"), L("create_volume"), L("delete_volume"), L("attach_volume"),
      L("detach_volume"), L("create_snapshot"), L("delete_snapshot"),
      L("has_snapshot"), L("reboot_worker"), L("configure_networks"),
      L("set_worker_metadata"), L("clone_volume")>>

list_actions ==
    <<L("test_install"), L("list_workers"), L("create_worker"), L("delete_worker"),
      L("get_worker"), L("has_worker"), L("start_worker"), L("get_volumes"),
      L("has_volume"), L("create_volume"), L("delete_volume"), L("attach_volume"),
      L("detach_volume"), L("create_snapshot"), L("delete_snapshot"),
      L("has_snapshot"), L("reboot_worker"), L("configure_networks"),
      L("set_worker_metadata"), L("snapshot_volume")>>

(***************************************************************************)
(* get_action_definition                                                   *)
(***************************************************************************)
\* param!(name, description, type, required)
param_required(name, description, type) ==
    [name |-> name, description |-> description, param_type |-> type,
     required |-> TRUE, default_value |-> None]

\* param!(name, description, type, optional, default)
param_optional(name, description, type, default) ==
    [name |-> name, description |-> description, param_type |-> type,
     required |-> FALSE, default_value |-> Some(default)]

get_action_definition(a) ==
    CASE a = L("test_install") ->
             Some([name        |-> L("test_install"),
                   description |-> "Test if VirtualBox is properly installed",
                   parameters  |->
                 <<>>])
      [] a = L("list_workers") ->
             Some([name        |-> L("list_workers"),
                   description |-> "List all virtual machines",
                   parameters  |->
                 <<>>])
      [] a = L("create_worker") ->
             Some([name        |-> L("create_worker"),
                   description |-> "Create a new virtual machine",
                   parameters  |->
                 <<param_required("worker_name", "Name of the VM to create", "String"),
                   param_optional("os_type", "Operating system type", "String", JString(L("Ubuntu_64"))),
                   param_optional("memory_mb", "Memory in MB", "Integer", JNumber(2048)),
                   param_optional("cpu_count", "Number of CPUs", "Integer", JNumber(2))>>])
      [] a = L("delete_worker") ->
             Some([name        |-> L("delete_worker"),
                   description |-> "Delete a virtual machine",
                   parameters  |->
                 <<param_required("worker_name", "Name of the VM to delete", "String")>>])
      [] a = L("get_worker") ->
             Some([name        |-> L("get_worker"),
                   description |-> "Get information about a virtual machine",
                   parameters  |->
                 <<param_required("worker_name", "Name of the VM", "String")>>])
      [] a = L("has_worker") ->
             Some([name        |-> L("has_worker"),
                   description |-> "Check if a virtual machine exists",
                   parameters  |->
                 <<param_required("worker_name", "Name of the VM", "String")>>])
      [] a = L("start_worker") ->
             Some([name        |-> L("start_worker"),
                   description |-> "Start a virtual machine",
                   parameters  |->
                 <<param_required("worker_name", "Name of the VM to start", "String")>>])
      [] a = L("get_volumes") ->
             Some([name        |-> L("get_volumes"),
                   description |-> "List all virtual disk volumes",
                   parameters  |->
                 <<>>])
      [] a = L("has_volume") ->
             Some([name        |-> L("has_volume"),
                   description |-> "Check if a disk volume exists",
                   parameters  |->
                 <<param_required("disk_path", "Path to the disk", "String")>>])
      [] a = L("create_volume") ->
             Some([name        |-> L("create_volume"),
                   description |-> "Create a new disk volume",
                   parameters  |->
                 <<param_required("disk_path", "Path for the new disk", "String"),
                   param_required("size_mb", "Size in MB", "Integer")>>])
      [] a = L("delete_volume") ->
             Some([name        |-> L("delete_volume"),
                   description |-> "Delete a disk volume",
                   parameters  |->
                 <<param_required("disk_path", "Path to the disk", "String")>>])
      [] a = L("attach_volume") ->
             Some([name        |-> L("attach_volume"),
                   description |-> "Create a storage controller and attach a disk to a VM",
                   parameters  |->
                 <<param_required("worker_name", "Name of the VM", "String"),
                   param_optional("controller_name", "Name of the storage controller", "String", JString(L("SATA Controller"))),
                   param_required("port", "Port number", "Integer"),
                   param_required("disk_path", "Path to the disk", "String")>>])
      [] a = L("detach_volume") ->
             Some([name        |-> L("detach_volume"),
                   description |-> "Detach a disk from a VM",
                   parameters  |->
                 <<param_required("worker_name", "Name of the VM", "String"),
                   param_optional("controller_name", "Name of the storage controller", "String", JString(L("SATA Controller"))),
                   param_required("port", "Port number", "Integer")>>])
      [] a = L("create_snapshot") ->
             Some([name        |-> L("create_snapshot"),
                   description |-> "Create a snapshot of a VM",
                   parameters  |->
                 <<param_required("worker_name", "Name of the VM", "String"),
                   param_required("snapshot_name", "Name of the snapshot", "String")>>])
      [] a = L("delete_snapshot") ->
             Some([name        |-> L("delete_snapshot"),
                   description |-> "Delete a snapshot of a VM",
                   parameters  |->
                 <<param_required("worker_name", "Name of the VM", "String"),
                   param_required("snapshot_name", "Name of the snapshot", "String")>>])
      [] a = L("has_snapshot") ->
             Some([name        |-> L("has_snapshot"),
                   description |-> "Check if a snapshot exists",
                   parameters  |->
                 <<param_required("worker_name", "Name of the VM", "String"),
                   param_required("snapshot_name", "Name of the snapshot", "String")>>])
      [] a = L("reboot_worker") ->
             Some([name        |-> L("reboot_worker"),
                   description |-> "Reboot a VM",
                   parameters  |->
                 <<param_required("worker_name", "Name of the VM", "String")>>])
      [] a = L("configure_networks") ->
             Some([name        |-> L("configure_networks"),
                   description |-> "Configure network settings for a VM",
                   parameters  |->
                 <<param_required("worker_name", "Name of the VM", "String"),
                   param_required("network_index", "Network adapter index", "Integer"),
                   param_optional("network_type", "Network type", "String", JString(L("nat")))>>])
      [] a = L("set_worker_metadata") ->
             Some([name        |-> L("set_worker_metadata"),
                   description |-> "Set metadata for a VM",
                   parameters  |->
                 <<param_required("worker_name", "Name of the VM", "String"),
                   param_required("key", "Metadata key", "String"),
                   param_required("value", "Metadata value", "String")>>])
      [] a = L("snapshot_volume") ->
             Some([name        |-> L("snapshot_volume"),
                   description |-> "Clone a disk volume",
                   parameters  |->
                 <<param_required("source_volume_path", "Path to the source disk", "String"),
                   param_required("target_volume_path", "Path for the cloned disk", "String")>>])
      [] OTHER -> None

(***************************************************************************)
(* Command output as the tool writes it: every line ended by a newline     *)
(***************************************************************************)
RECURSIVE Unlines(_)
Unlines(ls) == IF ls = <<>> THEN <<>> ELSE Head(ls) \o <<"\n">> \o Unlines(Tail(ls))

StrsUpTo(chars, n) == UNION {[1..k -> chars] : k \in 0..n}

SeqsUpTo(S, n) == UNION {[1..k -> S] : k \in 0..n}

RemoveAt(s, i) == SubSeq(s, 1, i - 1) \o SubSeq(s, i + 1, Len(s))

ExitedOk(stdout) == Process(TRUE, <<>>, TRUE, stdout, <<>>)

(***************************************************************************)
(* Specification of list_workers over terse listings                       *)
(***************************************************************************)
MaxLines == 2

MaxNameLen == 1

MaxBadLen == 2

NameChars == {"a", "{", "}"}

Uuids == {<<"1">>, <<"2">>}

BadChars == {"\"", "{", "}"}

\* "<name>" {<uuid>}
WellFormedLine(name, uuid) == <<"\"">> \o name \o <<"\"", " ", "{">> \o uuid \o <<"}">>

ListLines ==
    {[wf |-> TRUE, name |-> n, uuid |-> u, raw |-> WellFormedLine(n, u)] :
        n \in StrsUpTo(NameChars, MaxNameLen), u \in Uuids}
    \cup
    {[wf |-> FALSE, name |-> <<>>, uuid |-> <<>>, raw |-> b] :
        b \in StrsUpTo(BadChars, MaxBadLen) \cup {<<" ">>, <<"a", " ", "{", "1", "}">>}}

RawText(ls) == Unlines([i \in 1..Len(ls) |-> ls[i].raw])

InitListWorkers ==
    /\ pc = "exec"
    /\ action = L("list_workers")
    /\ params = <<>>
    /\ procs = <<>>
    /\ cmds = <<>>
    /\ result = NoResult
    /\ input \in SeqsUpTo(ListLines, MaxLines)

ParseListWorkers ==
    /\ pc = "exec"
    /\ pc' = "done"
    /\ cmds' = <<execute_action(action, params, <<>>).argv>>
    /\ procs' = <<ExitedOk(RawText(input))>>
    /\ result' = execute_action(action, params, Results(procs')).result
    /\ UNCHANGED <<action, params, input>>

NextListWorkers == ParseListWorkers

SpecListWorkers == InitListWorkers /\ [][NextListWorkers]_vars

(***************************************************************************)
(* Specification of get_worker over machine-readable dumps                 *)
(***************************************************************************)
MaxInfoLines == 2

IntegerKeys == {<<"memory">>, <<"cpus">>}

StringKeys ==
    {<<"name">>, <<"UUID">>, <<"VMState">>, <<"ostype">>, <<"firmware">>,
     <<"graphicscontroller">>}

OtherKeys == {<<"hwvirtex">>}

\* the text after the first "=" of a line
IntegerTexts ==
    {<<>>, <<"1">>, <<"2", "0">>, <<"-", "1">>, <<"\"", "4", "\"">>, <<"x">>,
     <<"1", "x">>, <<"1", "=">>, <<"1", ".", "5">>}

StringTexts == {<<"\"", "a", "\"">>, <<"\"", "a", "=", "b", "\"">>}

InfoLines ==
    {[key |-> k, text |-> t] : k \in IntegerKeys, t \in IntegerTexts}
    \cup {[key |-> k, text |-> t] : k \in StringKeys \cup OtherKeys, t \in StringTexts}

InfoText(ls) == Unlines([i \in 1..Len(ls) |-> ls[i].key \o <<"=">> \o ls[i].text])

InitGetWorker ==
    /\ pc = "exec"
    /\ action = L("get_worker")
    /\ params = [worker_name |-> JString(L("vm1"))]
    /\ procs = <<>>
    /\ cmds = <<>>
    /\ result = NoResult
    /\ input \in SeqsUpTo(InfoLines, MaxInfoLines)

ParseGetWorker ==
    /\ pc = "exec"
    /\ pc' = "done"
    /\ cmds' = <<execute_action(action, params, <<>>).argv>>
    /\ procs' = <<ExitedOk(InfoText(input))>>
    /\ result' = execute_action(action, params, Results(procs')).result
    /\ UNCHANGED <<action, params, input>>

NextGetWorker == ParseGetWorker

SpecGetWorker == InitGetWorker /\ [][NextGetWorker]_vars

(***************************************************************************)
(* Specification of get_volumes over blank-line-delimited blocks           *)
(***************************************************************************)
MaxVolLines == 2

VolumeLabels ==
    {<<"UUID", ":">>, <<"Location", ":">>, <<"Capacity", ":">>, <<"Format", ":">>,
     <<"Type", ":">>, <<"Parent", " ", "UUID", ":">>, <<"State", ":">>}

CapacityTexts ==
    {<<>>, <<" ", "1">>, <<" ", "1", " ", "MBytes">>, <<"2", " ", "MBytes">>,
     <<" ", "x", " ", "MBytes">>, <<" ", "1", " ", "GBytes">>, <<" ", "1", "MBytes">>,
     <<" ", "1", " ", "MBytes", " ", "x">>}

LabelTexts == {<<>>, <<" ", "a">>}

\* lines that start with no label
PlainLines == {<<"a">>, <<" ", "UUID", ":", " ", "a">>, <<"In use by VMs", ":", " ", "a">>}

VolumeLines ==
    {[label |-> <<"Capacity", ":">>, text |-> t, raw |-> <<"Capacity", ":">> \o t] :
        t \in CapacityTexts}
    \cup {[label |-> l, text |-> t, raw |-> l \o t] :
            l \in VolumeLabels \ {<<"Capacity", ":">>}, t \in LabelTexts}
    \cup {[label |-> <<>>, text |-> p, raw |-> p] : p \in PlainLines}

\* a line of the listing, and whether a blank line follows it (ending its block)
VolumeItems == {[line |-> l, last |-> b] : l \in VolumeLines, b \in BOOLEAN}

RECURSIVE VolumeText(_)
VolumeText(items) ==
    IF items = <<>> THEN <<>>
    ELSE Head(items).line.raw \o <<"\n">>
             \o (IF Head(items).last THEN <<"\n">> ELSE <<>>)
             \o VolumeText(Tail(items))

InitGetVolumes ==
    /\ pc = "exec"
    /\ action = L("get_volumes")
    /\ params = <<>>
    /\ procs = <<>>
    /\ cmds = <<>>
    /\ result = NoResult
    /\ input \in SeqsUpTo(VolumeItems, MaxVolLines)

ParseGetVolumes ==
    /\ pc = "exec"
    /\ pc' = "done"
    /\ cmds' = <<execute_action(action, params, <<>>).argv>>
    /\ procs' = <<ExitedOk(VolumeText(input))>>
    /\ result' = execute_action(action, params, Results(procs')).result
    /\ UNCHANGED <<action, params, input>>

NextGetVolumes == ParseGetVolumes

SpecGetVolumes == InitGetVolumes /\ [][NextGetVolumes]_vars

(***************************************************************************)
(* Specification of create_volume over createmedium reports                *)
(***************************************************************************)
MaxMediumLines == 2

\* the text after the first ":" of a line
MediumTexts ==
    {<<>>, <<" ", "abc-123">>, <<" ", "/tmp/disk.vdi", " ">>,
     <<" ", "C", ":", "\\disk.vdi">>}

MediumLines ==
    {[label |-> l, text |-> t, raw |-> l \o <<":">> \o t] :
        l \in {<<"UUID">>, <<"Location">>, <<"Medium created. ", "UUID">>},
        t \in MediumTexts}
    \cup {[label |-> <<>>, text |-> <<>>, raw |-> <<"0%...100%">>]}

InitCreateVolume ==
    /\ pc = "exec"
    /\ action = L("create_volume")
    /\ params = [disk_path |-> JString(L("/tmp/disk.vdi")), size_mb |-> JNumber(10240)]
    /\ procs = <<>>
    /\ cmds = <<>>
    /\ result = NoResult
    /\ input \in SeqsUpTo(MediumLines, MaxMediumLines)

ParseCreateVolume ==
    /\ pc = "exec"
    /\ pc' = "done"
    /\ cmds' = <<execute_action(action, params, <<>>).argv>>
    /\ procs' = <<ExitedOk(Unlines([i \in 1..Len(input) |-> input[i].raw]))>>
    /\ result' = execute_action(action, params, Results(procs')).result
    /\ UNCHANGED <<action, params, input>>

NextCreateVolume == ParseCreateVolume

SpecCreateVolume == InitCreateVolume /\ [][NextCreateVolume]_vars

(***************************************************************************)
(* Specification of has_snapshot over snapshot listings                    *)
(***************************************************************************)
MaxSnapLines == 2

MaxSnapTextLen == 2

SnapChars == {"a", "b"}

\* the names asked for
SnapQueries == {<<>>, <<"a">>, <<"a", "b">>, <<"b", "a">>}

\* the lines of `snapshot <vm> list --machinereadable`: key="text"
SnapLines ==
    {[key |-> k, text |-> t, raw |-> <<k, "=", "\"">> \o t \o <<"\"">>] :
        k \in {"SnapshotName", "SnapshotUUID"},
        t \in StrsUpTo(SnapChars, MaxSnapTextLen)}

InitHasSnapshot ==
    /\ pc = "exec"
    /\ action = L("has_snapshot")
    /\ params \in {[worker_name |-> JString(L("vm1")), snapshot_name |-> JString(q)] :
                      q \in SnapQueries}
    /\ procs = <<>>
    /\ cmds = <<>>
    /\ result = NoResult
    /\ input \in SeqsUpTo(SnapLines, MaxSnapLines)

ParseHasSnapshot ==
    /\ pc = "exec"
    /\ pc' = "done"
    /\ cmds' = <<execute_action(action, params, <<>>).argv>>
    /\ procs' = <<ExitedOk(Unlines([i \in 1..Len(input) |-> input[i].raw]))>>
    /\ result' = execute_action(action, params, Results(procs')).result
    /\ UNCHANGED <<action, params, input>>

NextHasSnapshot == ParseHasSnapshot

SpecHasSnapshot == InitHasSnapshot /\ [][NextHasSnapshot]_vars

(***************************************************************************)
(* Specification of the provider: calls of execute_action, one at a time   *)
(* (each call is synchronous and keeps nothing for the next)               *)
(***************************************************************************)
Registered(a) == \E i \in 1..Len(list_actions) : list_actions[i] = a

UnknownNames == {<<>>, L("List_Workers"), L("frobnicate")}

CallNames == {list_actions[i] : i \in 1..Len(list_actions)} \cup UnknownNames

Schema(a) ==
    IF get_action_definition(a).some THEN get_action_definition(a).v.parameters ELSE <<>>

\* the keys a caller's map is drawn over: the action's declared parameters,
\* or a key no action declares
CallKeys(a) ==
    IF Schema(a) = <<>> THEN {"extra"}
    ELSE {Schema(a)[i].name : i \in 1..Len(Schema(a))}

JsonValues == {JString(L("base")), JNumber(7), JFraction(1)}

ParamMaps(a) == UNION {[K -> JsonValues] : K \in SUBSET CallKeys(a)}

SnapshotListing ==
    <<"SnapshotName", "=", "\"", "base", "-v2", "\"", "\n",
      "SnapshotUUID", "=", "\"", "abc-123", "\"", "\n">>

Stdouts ==
    {<<>>,
     <<"7.0.14r161095", "\n">>,
     <<"\"", "vm1", "\"", " ", "{", "abc-123", "}", "\n">>,
     <<"name", "=", "\"", "vm1", "\"", "\n", "memory", "=", "2", "0", "4", "8", "\n">>,
     <<"UUID", ":", " ", "abc-123", "\n", "Location", ":", " ", "/tmp/disk.vdi", "\n">>,
     SnapshotListing,
     <<"Snapshot", " ", "taken", " ", "as", " ", "UUID", ":", " ", "abc-123", "\n">>}

Processes ==
    {Process(FALSE, L("No such file or directory (os error 2)"), FALSE, <<>>, <<>>),
     Process(TRUE, <<>>, FALSE, <<>>, L("VBoxManage: error: Could not find the object")),
     Process(TRUE, <<>>, FALSE, SnapshotListing, <<>>)}
    \cup {Process(TRUE, <<>>, TRUE, out, <<>>) : out \in Stdouts}

Init ==
    /\ pc = "idle"
    /\ action = <<>>
    /\ params = <<>>
    /\ procs = <<>>
    /\ cmds = <<>>
    /\ result = NoResult
    /\ input = <<>>

\* a caller enters execute_action(a, p)
Call ==
    /\ pc = "idle"
    /\ \E a \in CallNames : \E p \in ParamMaps(a) :
          /\ action' = a
          /\ params' = p
    /\ pc' = "exec"
    /\ UNCHANGED <<procs, cmds, result, input>>

\* the call reaches a run_vboxmanage: the tool is spawned with the argument
\* vector and the call blocks until the process has answered
RunVBoxManage ==
    /\ pc = "exec"
    /\ execute_action(action, params, Results(procs)).t = "run"
    /\ cmds' = Append(cmds, execute_action(action, params, Results(procs)).argv)
    /\ \E proc \in Processes : procs' = Append(procs, proc)
    /\ UNCHANGED <<pc, action, params, result, input>>

\* the call returns its ActionResult
Return ==
    /\ pc = "exec"
    /\ execute_action(action, params, Results(procs)).t = "ret"
    /\ result' = execute_action(action, params, Results(procs)).result
    /\ pc' = "done"
    /\ UNCHANGED <<action, params, procs, cmds, input>>

\* the caller has the result; nothing of the call is kept
Drop ==
    /\ pc = "done"
    /\ pc' = "idle"
    /\ action' = <<>>
    /\ params' = <<>>
    /\ procs' = <<>>
    /\ cmds' = <<>>
    /\ result' = NoResult
    /\ UNCHANGED input

Next == Call \/ RunVBoxManage \/ Return \/ Drop

Spec == Init /\ [][Next]_vars

(***************************************************************************)
(* Properties of the provider (Spec)                                       *)
(***************************************************************************)
\* the parameter is in the map with the type its declaration names
WellTyped(spec) ==
    /\ spec.name \in DOMAIN params
    /\ spec.param_type = "String" => params[spec.name].t = "string"
    /\ spec.param_type = "Integer" =>
           params[spec.name].t = "number" /\ ~params[spec.name].fraction

\* the extraction of a declared parameter fails: a required one is absent, or
\* a supplied one has the wrong type
ExtractionFails ==
    \E i \in 1..Len(Schema(action)) :
        \/ Schema(action)[i].required /\ Schema(action)[i].name \notin DOMAIN params
        \/ Schema(action)[i].name \in DOMAIN params /\ ~WellTyped(Schema(action)[i])

\* the external command failed: it could not be spawned, or exited nonzero
Failed(proc) == ~proc.spawned \/ ~proc.success

\* C1: for every registered action and parameter map, a result Ok(record) has
\* the field success with the value true.
C1_OkRecordHasSuccessTrue ==
    (pc = "done" /\ Registered(action) /\ result.tag = "Ok") =>
        /\ "success" \in DOMAIN result.val
        /\ result.val.success = TRUE

\* C1 (amended): for every registered action other than list_workers and every
\* parameter map, a result Ok(record) has the field success with the value
\* true; the Ok record of list_workers has the one field workers.
C1_OkRecordHasSuccessTrueButListWorkers ==
    (pc = "done" /\ Registered(action) /\ result.tag = "Ok") =>
        IF action = L("list_workers")
        THEN DOMAIN result.val = {"workers"}
        ELSE "success" \in DOMAIN result.val /\ result.val.success = TRUE

C1_Witness ==
    /\ pc = "done"
    /\ action = L("list_workers")
    /\ result.tag = "Ok"
    /\ Len(result.val.workers) = 1

\* C2: has_worker and has_volume with a valid string parameter never return
\* Err: the result is Ok{success: true, exists: true} when the query command
\* succeeds and Ok{success: true, exists: false} when it is not spawned or exits
\* nonzero, and holds nothing else (none of the command's error text).
C2_ProbeNeverFails ==
    (pc = "done" /\ action \in {L("has_worker"), L("has_volume")} /\ ~ExtractionFails) =>
        /\ Len(procs) = 1
        /\ cmds[1][1] = (IF action = L("has_worker") THEN L("showvminfo")
                                                     ELSE L("showmediuminfo"))
        /\ result.tag = "Ok"
        /\ result.val = [success |-> TRUE, exists |-> ~Failed(procs[1])]

C2_Witness ==
    /\ pc = "done"
    /\ action = L("has_volume")
    /\ ~ExtractionFails
    /\ Len(procs) = 1 /\ ~procs[1].spawned
    /\ result = Ok([success |-> TRUE, exists |-> FALSE])

\* C3: has_snapshot with valid worker_name and snapshot_name never returns an
\* error result: also when the snapshot-list command exits nonzero (the worker
\* does not exist) the result is Ok{success: true, exists: false}.
C3_SnapshotProbeNeverFails ==
    (pc = "done" /\ action = L("has_snapshot") /\ ~ExtractionFails) =>
        /\ result.tag = "Ok"
        /\ Failed(procs[1]) => result.val = [success |-> TRUE, exists |-> FALSE]

\* C4: for an action name that is not registered, and every parameter map,
\* execute_action returns Err("Action '<name>' not found") with that name, and
\* no external command is invoked.
C4_UnknownActionIsNamed ==
    (pc # "idle" /\ ~Registered(action)) =>
        /\ cmds = <<>> /\ procs = <<>>
        /\ pc = "done" =>
              /\ result = Err(<<"Action '">> \o action \o <<"' not found">>)
              /\ Contains(result.msg, action)

C4_Witness ==
    /\ pc = "done"
    /\ action = L("frobnicate")
    /\ DOMAIN params # {}
    /\ result.tag = "Err"

\* C5: when the extraction of any parameter of the action fails, the call
\* returns Err and no external command has been invoked at all.
C5_ValidationPrecedesExecution ==
    (pc # "idle" /\ ExtractionFails) =>
        /\ cmds = <<>> /\ procs = <<>>
        /\ pc = "done" => result.tag = "Err"

C5_Witness ==
    /\ pc = "done"
    /\ action = L("attach_volume")
    /\ "worker_name" \in DOMAIN params /\ params["worker_name"].t = "string"
    /\ "disk_path" \in DOMAIN params /\ params["disk_path"].t = "string"
    /\ "port" \in DOMAIN params /\ params["port"].fraction
    /\ result.tag = "Err"
    /\ cmds = <<>>

(***************************************************************************)
(* Properties of list_workers (SpecListWorkers)                            *)
(***************************************************************************)
Workers == result.val.workers

\* C6: a listing of N well-formed lines "<name>" {<uuid>} gives exactly N
\* records, the i-th with the i-th line's name and, as id and as uuid, the
\* i-th line's uuid, in source order.
C6_WellFormedLinesGiveTheirRecords ==
    (pc = "done" /\ \A i \in 1..Len(input) : input[i].wf) =>
        /\ result.tag = "Ok"
        /\ Len(Workers) = Len(input)
        /\ \A i \in 1..Len(input) :
              /\ Workers[i].name = input[i].name
              /\ Workers[i].id = input[i].uuid
              /\ Workers[i].uuid = input[i].uuid

HasPair(l, open, close) ==
    \E i \in 1..Len(l) : \E j \in (i + 1)..Len(l) : l[i] = open /\ l[j] = close

LacksPair(l) == ~HasPair(l, "\"", "\"") \/ ~HasPair(l, "{", "}")

\* C7: a line without a pair of double-quotes or without a pair of braces
\* adds no record, and the listing parses to what it parses to without that
\* line; the result is Ok.
C7_MalformedLineContributesNothing ==
    pc = "done" =>
        /\ result.tag = "Ok"
        /\ \A i \in 1..Len(input) :
              LacksPair(input[i].raw) =>
                  Workers = list_workers(<<Ok(RawText(RemoveAt(input, i)))>>).result.val.workers
        /\ (\A i \in 1..Len(input) : LacksPair(input[i].raw)) => Workers = <<>>

C7_Witness ==
    /\ pc = "done"
    /\ Len(input) = 2
    /\ LacksPair(input[1].raw) /\ input[1].raw # <<>>
    /\ input[2].wf
    /\ result.tag = "Ok" /\ Len(Workers) = 1

(***************************************************************************)
(* Properties of get_worker (SpecGetWorker)                                *)
(***************************************************************************)
FieldOf(key) ==
    CASE key = <<"name">> -> "name"
      [] key = <<"UUID">> -> "id"
      [] key = <<"VMState">> -> "state"
      [] key = <<"memory">> -> "memory_mb"
      [] key = <<"cpus">> -> "cpu_count"
      [] key = <<"ostype">> -> "os_type"
      [] key = <<"firmware">> -> "firmware"
      [] key = <<"graphicscontroller">> -> "graphics_controller"

\* the value of a line: the text after its first "=", without surrounding quotes
ValueOf(text) == TrimMatches(Trim(text), "\"")

IsInteger(text) == ParseI64(ValueOf(text)).tag = "Ok"

\* the output has lines for the key, and none of them has an integer value
NonNumeric(key) ==
    /\ \E i \in 1..Len(input) : input[i].key = key
    /\ \A i \in 1..Len(input) : input[i].key = key => ~IsInteger(input[i].text)

\* C8: when the value of the memory (cpus) line is no integer, memory_mb
\* (cpu_count) is absent from the vm record, the result is Ok, and every other
\* recognized key of the output is present in the record.
C8_NonNumericIntegerFieldOmitted ==
    pc = "done" =>
        \A k \in IntegerKeys :
            NonNumeric(k) =>
                /\ result.tag = "Ok"
                /\ FieldOf(k) \notin DOMAIN result.val.vm
                /\ \A i \in 1..Len(input) :
                      \/ input[i].key \in StringKeys
                      \/ (input[i].key \in IntegerKeys \ {k} /\ IsInteger(input[i].text))
                      => FieldOf(input[i].key) \in DOMAIN result.val.vm

(***************************************************************************)
(* Properties of get_volumes (SpecGetVolumes)                              *)
(***************************************************************************)
\* the blocks of the listing: the lines up to each blank line
RECURSIVE BlocksOf(_, _)
BlocksOf(items, open) ==
    IF items = <<>> THEN (IF open = <<>> THEN <<>> ELSE <<open>>)
    ELSE IF Head(items).last
    THEN <<Append(open, Head(items).line)>> \o BlocksOf(Tail(items), <<>>)
    ELSE BlocksOf(Tail(items), Append(open, Head(items).line))

InputBlocks == BlocksOf(input, <<>>)

Labelled(line) == \E l \in VolumeLabels : StartsWith(line.raw, l)

LabelledLines(block) == {i \in 1..Len(block) : Labelled(block[i])}

Volumes == result.val.volumes

\* C9: a block with no line starting with a recognized label gives no record,
\* and a block with exactly one such line gives exactly one record with exactly
\* one populated field, for every one of the seven labels.
C9_OneLabelOneField ==
    (pc = "done" /\ \A b \in 1..Len(InputBlocks) : Cardinality(LabelledLines(InputBlocks[b])) <= 1)
    =>  /\ result.tag = "Ok"
        /\ Len(Volumes) =
             Cardinality({b \in 1..Len(InputBlocks) :
                             Cardinality(LabelledLines(InputBlocks[b])) = 1})
        /\ \A v \in 1..Len(Volumes) : Cardinality(DOMAIN Volumes[v]) = 1

\* a Capacity: line gives size_mb only as "<integer> MBytes"
CapacityInMBytes(text) ==
    LET words == SplitWhitespace(text)
    IN  Len(words) >= 2 /\ ParseI64(words[1]).tag = "Ok" /\ words[2] = <<"MBytes">>

Populates(line) ==
    /\ Labelled(line)
    /\ StartsWith(line.raw, <<"Capacity", ":">>) => CapacityInMBytes(line.text)

\* C9 (amended): a block with no line starting with a recognized label gives no
\* record; a block with exactly one such line gives exactly one record with
\* exactly one populated field for the labels UUID:, Location:, Format:, Type:,
\* Parent UUID: and State:, and for Capacity: when its value is an integer
\* followed by the word MBytes; a block whose only labelled line is any other
\* Capacity: line gives no record.
C9_OneLabelOneFieldUnlessCapacity ==
    (pc = "done" /\ \A b \in 1..Len(InputBlocks) : Cardinality(LabelledLines(InputBlocks[b])) <= 1)
    =>  /\ result.tag = "Ok"
        /\ Len(Volumes) =
             Cardinality({b \in 1..Len(InputBlocks) :
                             \E i \in LabelledLines(InputBlocks[b]) :
                                 Populates(InputBlocks[b][i])})
        /\ \A v \in 1..Len(Volumes) : Cardinality(DOMAIN Volumes[v]) = 1

C9_Witness ==
    /\ pc = "done"
    /\ Len(InputBlocks) = 2
    /\ LabelledLines(InputBlocks[1]) = {}
    /\ Cardinality(LabelledLines(InputBlocks[2])) = 1
    /\ StartsWith(InputBlocks[2][1].raw, <<"Capacity", ":">>)
    /\ result.tag = "Ok" /\ Len(Volumes) = 1 /\ DOMAIN Volumes[1] = {"size_mb"}

(***************************************************************************)
(* Properties of create_volume (SpecCreateVolume)                          *)
(***************************************************************************)
UuidLines == {i \in 1..Len(input) : Contains(input[i].raw, <<"UUID", ":">>)}

LocationLines == {i \in 1..Len(input) : StartsWith(input[i].raw, <<"Location", ":">>)}

\* C10: create_volume returns {success: true, uuid, path}, uuid the trimmed
\* remainder after the first colon of the UUID: line and path the trimmed
\* remainder after the first colon of the Location: line, the whole remainder
\* also when it contains further colons.
C10_UuidAndPathAreRemainders ==
    (pc = "done" /\ Cardinality(UuidLines) = 1 /\ Cardinality(LocationLines) = 1) =>
        /\ result.tag = "Ok"
        /\ result.val.success = TRUE
        /\ \A i \in UuidLines : result.val.uuid = Trim(input[i].text)
        /\ \A i \in LocationLines : result.val.path = Trim(input[i].text)

(***************************************************************************)
(* Properties of has_snapshot (SpecHasSnapshot)                            *)
(***************************************************************************)
\* the text q occurs in the text l, at some offset
Substring(q, l) == \E j \in 0..Len(l) : \E k \in j..Len(l) : SubSeq(l, j + 1, k) = q

\* C11: has_snapshot, when the snapshot-list command succeeds, returns
\* {success: true, exists: e}, e true exactly when at least one line of the
\* listing contains snapshot_name as a substring (a query for a name is true
\* when the only snapshot has a longer name that contains it).
C11_ExistsIffSubstringOfALine ==
    pc = "done" =>
        result = Ok([success |-> TRUE,
                     exists  |-> \E i \in 1..Len(input) :
                                     Substring(params["snapshot_name"].s, input[i].raw)])

\* asked for "a" when the only snapshot is "ab"
C11_Witness ==
    /\ pc = "done"
    /\ params["snapshot_name"] = JString(<<"a">>)
    /\ Len(input) = 1 /\ input[1].key = "SnapshotName" /\ input[1].text = <<"a", "b">>
    /\ result = Ok([success |-> TRUE, exists |-> TRUE])

(***************************************************************************)
(* Properties of the multi-command actions (Spec)                          *)
(***************************************************************************)
\* the subcommands issued so far, in order
Subcommands == [i \in 1..Len(cmds) |-> cmds[i][1]]

\* the message is the report of this failed command: what kind of failure it
\* was, and then the spawn error or the standard error text
Reports(msg, proc) ==
    /\ msg # <<>>
    /\ Tail(msg) = (IF proc.spawned THEN proc.stderr ELSE proc.e)
    /\ Head(msg) = (IF proc.spawned THEN "VBoxManage command failed: "
                                     ELSE "Failed to execute VBoxManage command: ")

\* C12: attach_volume with valid parameters issues exactly two commands, the
\* storagectl command and then the storageattach command, the second whether
\* the first succeeded or failed; the result is Ok{success: true} exactly when
\* storageattach succeeds, and Err with storageattach's failure otherwise,
\* whatever storagectl's outcome.
C12_AttachIgnoresControllerFailure ==
    (pc # "idle" /\ action = L("attach_volume") /\ ~ExtractionFails) =>
        /\ Len(cmds) = Len(procs)
        /\ \E n \in 0..2 : Subcommands = SubSeq(<<L("storagectl"), L("storageattach")>>, 1, n)
        /\ pc = "exec" /\ Len(procs) = 1 =>
               execute_action(action, params, Results(procs)).t = "run"
        /\ pc = "done" =>
              /\ Len(cmds) = 2
              /\ ~Failed(procs[2]) => result = Ok([success |-> TRUE])
              /\ Failed(procs[2]) =>
                    /\ result.tag = "Err"
                    /\ Reports(result.msg, procs[2])

\* the controller could not be created, the disk was attached
C12_Witness ==
    /\ pc = "done"
    /\ action = L("attach_volume")
    /\ Len(procs) = 2 /\ Failed(procs[1]) /\ ~Failed(procs[2])
    /\ Subcommands = <<L("storagectl"), L("storageattach")>>
    /\ result = Ok([success |-> TRUE])

\* C13: create_worker issues createvm, modifyvm (memory and cpus), modifyvm
\* (nic1 nat) in that order; it returns Ok exactly when all three succeed; at
\* the first command that fails it returns Err with no later command and no
\* compensating command (no unregistervm).
C13_CreateWorkerAbortsWithoutRollback ==
    (pc # "idle" /\ action = L("create_worker") /\ ~ExtractionFails) =>
        /\ Len(cmds) = Len(procs)
        /\ \E n \in 0..3 :
              Subcommands = SubSeq(<<L("createvm"), L("modifyvm"), L("modifyvm")>>, 1, n)
        /\ Len(cmds) >= 2 => /\ Contains(cmds[2], <<L("--memory")>>)
                             /\ Contains(cmds[2], <<L("--cpus")>>)
        /\ Len(cmds) >= 3 => SubSeq(cmds[3], 3, 4) = <<L("--nic1"), L("nat")>>
        /\ \A i \in 1..Len(procs) : Failed(procs[i]) => i = Len(procs)
        /\ pc = "exec" /\ procs # <<>> /\ Failed(procs[Len(procs)]) =>
               execute_action(action, params, Results(procs)).t = "ret"
        /\ pc = "done" =>
              /\ result.tag = "Ok" <=>
                     (Len(procs) = 3 /\ \A i \in 1..3 : ~Failed(procs[i]))
              /\ result.tag = "Err" =>
                     /\ Failed(procs[Len(procs)])
                     /\ Reports(result.msg, procs[Len(procs)])

\* createvm registered the VM, the first modifyvm failed, the call is over
C13_Witness ==
    /\ pc = "done"
    /\ action = L("create_worker")
    /\ Subcommands = <<L("createvm"), L("modifyvm")>>
    /\ ~Failed(procs[1]) /\ Failed(procs[2])
    /\ result.tag = "Err"

(***************************************************************************)
(* Properties of the optional parameters (Spec)                            *)
(***************************************************************************)
\* a JSON string or integer as the text of a command argument
JsonText(v) == IF v.t = "string" THEN v.s ELSE <<ToString(v.n)>>

\* the command-line flag the value of an optional parameter follows
FlagOf(name, argv) ==
    CASE name = "os_type"         -> L("--ostype")
      [] name = "memory_mb"       -> L("--memory")
      [] name = "cpu_count"       -> L("--cpus")
      [] name = "controller_name" -> IF argv[1] = L("storagectl") THEN L("--name")
                                                                  ELSE L("--storagectl")
      [] name = "network_type"    -> argv[3]

FlagAt(name, argv) == {k \in 1..(Len(argv) - 1) : argv[k] = FlagOf(name, argv)}

\* the optional parameters by action
OptionalNames(a) ==
    CASE a = L("create_worker")      -> {"os_type", "memory_mb", "cpu_count"}
      [] a = L("attach_volume")      -> {"controller_name"}
      [] a = L("detach_volume")      -> {"controller_name"}
      [] a = L("configure_networks") -> {"network_type"}
      [] OTHER                       -> {}

\* C14: for every optional parameter, when it is omitted the value passed to
\* the external command is the default its schema declares, which is the
\* default-settings value (Ubuntu_64, 2048, 2, "SATA Controller", nat); when it
\* is supplied with the right type the supplied value is passed.
C14_OptionalParametersDefault ==
    (pc # "idle" /\ Registered(action) /\ ~ExtractionFails) =>
        /\ {Schema(action)[i].name : i \in {j \in 1..Len(Schema(action)) :
                                               ~Schema(action)[j].required}}
               = OptionalNames(action)
        /\ \A i \in 1..Len(Schema(action)) :
              LET o == Schema(action)[i]
              IN  ~o.required =>
                    /\ o.default_value = Some(default_settings[o.name])
                    /\ JsonText(o.default_value.v) =
                          (CASE o.name = "os_type"         -> <<"Ubuntu_64">>
                             [] o.name = "memory_mb"       -> <<"2048">>
                             [] o.name = "cpu_count"       -> <<"2">>
                             [] o.name = "controller_name" -> <<"SATA Controller">>
                             [] o.name = "network_type"    -> <<"nat">>)
                    /\ \A c \in 1..Len(cmds) : \A k \in FlagAt(o.name, cmds[c]) :
                          cmds[c][k + 1] = JsonText(IF o.name \in DOMAIN params
                                                    THEN params[o.name]
                                                    ELSE o.default_value.v)
                    /\ (pc = "done" /\ result.tag = "Ok") =>
                          \E c \in 1..Len(cmds) : FlagAt(o.name, cmds[c]) # {}

\* memory_mb omitted and os_type supplied
C14_Witness ==
    /\ pc = "done"
    /\ action = L("create_worker")
    /\ result.tag = "Ok"
    /\ "memory_mb" \notin DOMAIN params
    /\ "os_type" \in DOMAIN params
    /\ cmds[1][5] = params["os_type"].s
    /\ cmds[2][4] = <<"2048">>

(***************************************************************************)
(* Properties of the action registry (Spec)                                *)
(***************************************************************************)
NotFound(n) == Err(<<"Action '">> \o n \o <<"' not found">>)

\* the call of execute_action under way answers, or has answered, that the
\* action was not found
AnswersNotFound ==
    IF pc = "done" THEN result = NotFound(action)
    ELSE execute_action(action, params, Results(procs)) = Ret(NotFound(action))

\* C15: list_actions returns 20 pairwise-distinct names, and for every name n
\* these are equivalent: n is in list_actions; get_action_definition(n) is
\* Some(def) with def.name = n; execute_action(n, _) does not return the error
\* "Action 'n' not found".
C15_RegistryConsistent ==
    /\ Len(list_actions) = 20
    /\ \A i, j \in 1..Len(list_actions) : list_actions[i] = list_actions[j] => i = j
    /\ pc # "idle" =>
          LET listed  == \E i \in 1..Len(list_actions) : list_actions[i] = action
              defined == /\ get_action_definition(action).some
                         /\ get_action_definition(action).v.name = action
          IN  /\ listed <=> defined
              /\ listed <=> ~AnswersNotFound

\* the last name of the list, refused for its parameters and not for its name
C15_Witness ==
    /\ pc = "done"
    /\ action = list_actions[Len(list_actions)]
    /\ get_action_definition(action).some
    /\ result.tag = "Err" /\ procs = <<>>
    /\ result # NotFound(action)

(***************************************************************************)
(* Properties of get_worker's line split (SpecGetWorker)                   *)
(***************************************************************************)
\* the last line of the output for the key, 0 for none
LastLineOf(key) ==
    LET at == {i \in 1..Len(input) : input[i].key = key}
    IN  IF at = {} THEN 0 ELSE SetMax(at)

\* C16: each line is split on its first "=" only: for every recognized key the
\* stored value is the whole text after the first "=", without its surrounding
\* double quotes, also when that text contains "=" (name="a=b" gives a=b).
C16_ValueIsTextAfterFirstEquals ==
    pc = "done" =>
        /\ result.tag = "Ok"
        /\ \A k \in StringKeys :
              LastLineOf(k) # 0 =>
                  /\ FieldOf(k) \in DOMAIN result.val.vm
                  /\ result.val.vm[FieldOf(k)] = ValueOf(input[LastLineOf(k)].text)

(***************************************************************************)
(* Properties of failure propagation (Spec)                                *)
(***************************************************************************)
\* the i-th command of the call is one whose failure is to be propagated
Propagating(i) ==
    /\ action \notin {L("has_worker"), L("has_volume")}
    /\ ~(action = L("attach_volume") /\ i = 1)

\* C17: for every action other than has_worker and has_volume and every
\* command it issues other than the storagectl step of attach_volume, when the
\* command fails (not spawned, or nonzero exit) the action returns Err at once,
\* with no further command and without issuing the failed command again; no
\* command is issued twice within a call.
C17_FailurePropagatesWithoutRetry ==
    (pc # "idle" /\ Registered(action)) =>
        /\ Len(cmds) = Len(procs)
        /\ \A i \in 1..Len(procs) :
              (Failed(procs[i]) /\ Propagating(i)) =>
                  /\ i = Len(procs)
                  /\ pc = "exec" =>
                         execute_action(action, params, Results(procs)).t = "ret"
                  /\ pc = "done" => /\ result.tag = "Err"
                                    /\ Reports(result.msg, procs[i])
        /\ action \notin {L("has_worker"), L("has_volume")} =>
              \A i, j \in 1..Len(cmds) : cmds[i] = cmds[j] => i = j

\* the snapshot listing could not be had: has_snapshot answers with the error
C17_Witness ==
    /\ pc = "done"
    /\ action = L("has_snapshot")
    /\ Len(cmds) = 1 /\ Len(procs) = 1
    /\ procs[1].spawned /\ ~procs[1].success
    /\ result.tag = "Err"
    /\ Reports(result.msg, procs[1])

(***************************************************************************)
(* Properties of empty command output (Spec)                               *)
(***************************************************************************)
\* every command of the call succeeded, and the one whose output is parsed
\* (the first) wrote nothing to its standard output
SucceededSilently ==
    /\ procs # <<>>
    /\ \A i \in 1..Len(procs) : ~Failed(procs[i])
    /\ procs[1].stdout = <<>>

\* C18: empty command output is never an error.  When the command succeeds
\* with empty stdout, list_workers returns no workers, get_volumes no volumes,
\* get_worker an empty vm record, has_snapshot exists: false, and test_install,
\* create_worker, create_volume, create_snapshot and snapshot_volume return Ok
\* with empty version, uuid and path.
C18_EmptyOutputIsNoError ==
    (pc = "done" /\ Registered(action) /\ ~ExtractionFails /\ SucceededSilently) =>
        /\ result.tag = "Ok"
        /\ action = L("list_workers") => result.val = [workers |-> <<>>]
        /\ action = L("get_volumes") => result.val = [success |-> TRUE, volumes |-> <<>>]
        /\ action = L("get_worker") =>
               /\ DOMAIN result.val = {"success", "vm"}
               /\ result.val.success = TRUE
               /\ DOMAIN result.val.vm = {}
        /\ action = L("has_snapshot") => result.val = [success |-> TRUE, exists |-> FALSE]
        /\ action = L("test_install") => result.val = [success |-> TRUE, version |-> <<>>]
        /\ action = L("create_worker") =>
               result.val = [success |-> TRUE, uuid |-> <<>>,
                             name |-> params["worker_name"].s]
        /\ action = L("create_volume") =>
               result.val = [success |-> TRUE, uuid |-> <<>>, path |-> <<>>]
        /\ action \in {L("create_snapshot"), L("snapshot_volume")} =>
               result.val = [success |-> TRUE, uuid |-> <<>>]

\* createvm printed nothing, and the two modifyvm succeeded
C18_Witness ==
    /\ pc = "done"
    /\ action = L("create_worker")
    /\ Len(procs) = 3 /\ SucceededSilently
    /\ result.tag = "Ok"
    /\ result.val.uuid = <<>>

====
